---- MODULE Spec2Model ----
(***************************************************************************)
(* Model of the similarity engine of quote-viz:                            *)
(*   NLPService          (backend/app/services/nlp_service.py)             *)
(*   SimilarityService   (backend/app/services/similarity.py)              *)
(*   Neo4jService        (backend/app/services/neo4j_service.py)           *)
(*                                                                         *)
(* Identifiers are integers: 0 stands for the empty string, the positive   *)
(* integers for the uuid4 strings the datastore hands out, -1 for None.    *)
(* Embeddings are integer vectors whose norm is an integer, so that the    *)
(* cosine similarity is an exact rational <<num, den>>; on such vectors    *)
(* the floating-point quotient of the code orders and ties exactly as the  *)
(* rational does.                                                          *)
(***************************************************************************)
EXTENDS Integers, Sequences, FiniteSets, Bags, TLC

VARIABLES
    \* ---- one call of NLPService.find_top_similar ----
    fn_pc,          \* "ready" before the call, "returned" after it
    fn_target,      \* target_embedding
    fn_corpus,      \* all_embeddings: sequence of <<id, embedding>>
    fn_top_k,       \* top_k
    fn_exclude,     \* exclude_id
    fn_result,      \* the returned list of <<id, score>>
    \* ---- the datastore ----
    persons,        \* names of the Person nodes
    quotes,         \* Quote nodes: id |-> [embedding, authors]; authors is the
                    \* bag of ATTRIBUTED_TO relationships leaving the node
    edges,          \* bag of SIMILAR_TO relationships <<source, target, similarity>>
    next_id,        \* the next uuid4 handed out
    \* ---- the requests running recompute_similarity_edges_top_k ----
    pc,             \* per request: "idle", "computed", "inserting", "done"
    rc_top_k,          \* per request: the parameter top_k
    rc_all_embeddings, \* per request: the list read by get_all_embeddings
    top_k_map,      \* per request: sequence of <<quote_id, similar>> in dict order
    pos,            \* per request: index of the next edge to create
    ret,            \* per request: the returned counts
    \* ---- bookkeeping of the runs, read only by the properties ----
    passes,         \* number of passes started
    delete_seen,    \* per request: a quote was deleted while its pass ran
    last_run,       \* [top_k, edges] as the latest completed pass left them
    \* ---- further properties of the Quote nodes ----
    cluster_id,     \* id |-> q.cluster_id, for the nodes that carry the property
    umap,           \* id |-> <<q.umap_x, q.umap_y>>, for the nodes that carry them
    \* ---- one run of scripts/compute_clusters.py on the datastore ----
    cj_pc,          \* "idle", "fitted", "updating", "done", "failed"
    cj_n_clusters,  \* the local n_clusters
    cj_embeddings_data, \* the list read by get_all_embeddings
    cj_updates,     \* the dict updates, as a sequence of <<quote_id, cluster_id>>
    cj_pos,         \* index of the next statement of update_cluster_ids
    cj_prior,       \* bookkeeping: cluster_id as the run found it
    \* ---- compute_clusters lines 27-54 on a corpus known by its size ----
    ad_pc,          \* "ready", "fitted", "failed"
    ad_size,        \* len(embeddings_data)
    ad_requested,   \* the parameter n_clusters
    ad_n_clusters,  \* n_clusters as handed to KMeans
    ad_label,       \* one of the entries of cluster_labels
    \* ---- one call of UMAPService.compute_2d_projection ----
    pj_pc,          \* "ready", "returned"
    pj_coords_2d,   \* what fit_transform returned: one <<x, y>> per embedding
    pj_result,      \* the returned dict, as a function of the ids
    \* ---- one run of scripts/migrate_to_openai.py on the datastore ----
    mg_pc,          \* "idle", "embedding", "provider_failed", "updating",
                    \* "projection_failed", "storing", "computed",
                    \* "inserting", "done", "exited"
    mg_batch_size,  \* settings.embedding_batch_size
    mg_quote_ids,   \* the list quote_ids
    mg_embeddings,  \* all_embeddings, then embeddings
    mg_pos,         \* index of the next statement of the running loop
    mg_umap_coords, \* umap_coords, as a sequence of <<quote_id, <<x, y>>>>
    mg_top_k_map,   \* top_k_map
    mg_before,      \* bookkeeping: embeddings, coordinates and edges as the
                    \* run found them
    \* ---- the read request in flight ----
    response        \* what the handler returns, NoResponse when none is in flight

fn_vars == <<fn_pc, fn_target, fn_corpus, fn_top_k, fn_exclude, fn_result>>

store_vars == <<persons, quotes, edges, next_id>>

pass_vars == <<pc, rc_top_k, rc_all_embeddings, top_k_map, pos, ret>>

book_vars == <<passes, delete_seen, last_run>>

attr_vars == <<cluster_id, umap>>

cj_vars == <<cj_pc, cj_n_clusters, cj_embeddings_data, cj_updates, cj_pos, cj_prior>>

ad_vars == <<ad_pc, ad_size, ad_requested, ad_n_clusters, ad_label>>

pj_vars == <<pj_pc, pj_coords_2d, pj_result>>

mg_vars == <<mg_pc, mg_batch_size, mg_quote_ids, mg_embeddings, mg_pos,
             mg_umap_coords, mg_top_k_map, mg_before>>

job_vars == <<cj_vars, ad_vars, pj_vars, mg_vars, response>>

vars == <<fn_pc, fn_target, fn_corpus, fn_top_k, fn_exclude, fn_result,
          persons, quotes, edges, next_id,
          pc, rc_top_k, rc_all_embeddings, top_k_map, pos, ret,
          passes, delete_seen, last_run,
          cluster_id, umap,
          cj_pc, cj_n_clusters, cj_embeddings_data, cj_updates, cj_pos, cj_prior,
          ad_pc, ad_size, ad_requested, ad_n_clusters, ad_label,
          pj_pc, pj_coords_2d, pj_result,
          mg_pc, mg_batch_size, mg_quote_ids, mg_embeddings, mg_pos,
          mg_umap_coords, mg_top_k_map, mg_before,
          response>>

-----------------------------------------------------------------------------
(* Bounds *)

MaxCorpus == 3      \* longest corpus handed to find_top_similar
MaxK == 3           \* largest top_k of a find_top_similar call
MaxQuotes == 3      \* quotes ever created, one pass at a time
MaxShared == 2      \* quotes ever created, passes running concurrently
MaxPassK == 2       \* largest top_k of a recompute pass
MaxPasses == 2      \* recompute passes started
MaxCrud == 2        \* quotes ever created, requests served one at a time
MaxLinks == 2       \* ATTRIBUTED_TO relationships leaving one quote
MaxSize == 31       \* largest corpus size handed to the cluster count
MaxRequested == 33  \* largest n_clusters asked of compute_clusters
MaxClustered == 3   \* quotes in the datastore compute_clusters runs on
MaxClusters == 3    \* largest n_clusters asked of a run on the datastore
MaxPoints == 3      \* longest list handed to compute_2d_projection
MaxAnalysed == 3    \* quotes in the datastore the statistics are read from
MaxMigrated == 2    \* quotes in the datastore migrate_to_openai.py is run on
MaxBatch == 2       \* largest settings.embedding_batch_size

-----------------------------------------------------------------------------
(* Values *)

NoneId == -1        \* Python None (exclude_id's default)
EmptyId == 0        \* the empty string, the one falsy str

\* Python truthiness of an Optional[str]
Truthy(id) == id # NoneId /\ id # EmptyId

Min(a, b) == IF a <= b THEN a ELSE b
Max(a, b) == IF a >= b THEN a ELSE b
Abs(a) == IF a >= 0 THEN a ELSE -a

RECURSIVE Gcd(_, _)
Gcd(a, b) == IF b = 0 THEN a ELSE Gcd(b, a % b)

\* the rational n/d in lowest terms with a positive denominator
Rat(n, d) ==
    LET g == Gcd(Abs(n), Abs(d))
        s == IF d < 0 THEN -1 ELSE 1
    IN  <<(s * n) \div g, (s * d) \div g>>

ZeroScore == <<0, 1>>       \* 0.0
NaNScore == <<0, 0>>        \* float('nan'): compares False with everything

IsNaN(a) == a[2] = 0
ScoreGT(a, b) == ~IsNaN(a) /\ ~IsNaN(b) /\ a[1] * b[2] > b[1] * a[2]
ScoreGE(a, b) == ~IsNaN(a) /\ ~IsNaN(b) /\ a[1] * b[2] >= b[1] * a[2]

\* np.dot
RECURSIVE Dot(_, _)
Dot(u, v) ==
    IF u = <<>> THEN 0 ELSE Head(u) * Head(v) + Dot(Tail(u), Tail(v))

\* np.linalg.norm, on vectors whose squared length is a perfect square
Norm(v) ==
    LET n2 == Dot(v, v)
    IN  CHOOSE r \in 0..n2 : r * r <= n2 /\ (r + 1) * (r + 1) > n2

\* the quotient without the zero-norm guard: numpy yields nan for 0/0
CosineUnguarded(embedding1, embedding2) ==
    LET dot_product == Dot(embedding1, embedding2)
        norm1 == Norm(embedding1)
        norm2 == Norm(embedding2)
    IN  IF norm1 * norm2 = 0 THEN NaNScore
        ELSE Rat(dot_product, norm1 * norm2)

\* NLPService.compute_cosine_similarity
ComputeCosineSimilarity(embedding1, embedding2) ==
    LET dot_product == Dot(embedding1, embedding2)
        norm1 == Norm(embedding1)
        norm2 == Norm(embedding2)
    IN  IF norm1 = 0 \/ norm2 = 0 THEN ZeroScore
        ELSE Rat(dot_product, norm1 * norm2)

\* the skip test of the loop of find_top_similar
Excluded(quote_id, exclude_id) == Truthy(exclude_id) /\ quote_id = exclude_id

\* the loop of find_top_similar: one <<id, similarity>> per entry not skipped
RECURSIVE Similarities(_, _, _)
Similarities(target_embedding, all_embeddings, exclude_id) ==
    IF all_embeddings = <<>> THEN <<>>
    ELSE LET e == Head(all_embeddings)
             rest == Similarities(target_embedding, Tail(all_embeddings), exclude_id)
         IN  IF Excluded(e[1], exclude_id) THEN rest
             ELSE <<<<e[1], ComputeCosineSimilarity(target_embedding, e[2])>>>> \o rest

\* x placed in front of the entries of t that are not greater: equal
\* entries come out in reverse input order
InsertUnstable(t, x) ==
    LET n == Cardinality({i \in 1..Len(t) : ScoreGT(t[i][2], x[2])})
    IN  SubSeq(t, 1, n) \o <<x>> \o SubSeq(t, n + 1, Len(t))

\* x placed behind every entry of the sorted list t that is not smaller:
\* equal entries keep their input order
InsertStable(t, x) ==
    LET n == Cardinality({i \in 1..Len(t) : ScoreGE(t[i][2], x[2])})
    IN  SubSeq(t, 1, n) \o <<x>> \o SubSeq(t, n + 1, Len(t))

\* the list left unsorted
SortNone(s) == s

\* similarities.sort(key=lambda x: x[1], reverse=True): stable, descending
RECURSIVE SortDescending(_)
SortDescending(s) ==
    IF s = <<>> THEN <<>>
    ELSE InsertStable(SortDescending(SubSeq(s, 1, Len(s) - 1)), s[Len(s)])

\* the list left uncut
SliceNone(s, top_k) == s

\* similarities[:top_k]
Slice(s, top_k) ==
    IF top_k >= 0 THEN SubSeq(s, 1, Min(top_k, Len(s)))
    ELSE SubSeq(s, 1, Max(0, Len(s) + top_k))

\* NLPService.find_top_similar
FindTopSimilar(target_embedding, all_embeddings, top_k, exclude_id) ==
    Slice(SortDescending(Similarities(target_embedding, all_embeddings, exclude_id)),
          top_k)

-----------------------------------------------------------------------------
(* One call of find_top_similar on inputs drawn from bounded sets *)

\* embeddings: the zero vector and vectors of length 5
Vectors == {<<0, 0>>, <<5, 0>>, <<3, 4>>, <<-5, 0>>}

FnIds == 0..(MaxCorpus - 1)

\* the corpora: at most MaxCorpus entries, no id twice
Corpora ==
    UNION {{c \in [1..n -> FnIds \X Vectors] :
              \A i, j \in 1..n : c[i][1] = c[j][1] => i = j} : n \in 0..MaxCorpus}

FnInputs ==
    /\ fn_pc = "ready"
    /\ fn_target \in Vectors
    /\ fn_corpus \in Corpora
    /\ fn_top_k \in 0..MaxK
    /\ fn_exclude \in {NoneId} \cup FnIds
    /\ fn_result = <<>>

FnCall ==
    /\ fn_pc = "ready"
    /\ fn_result' = FindTopSimilar(fn_target, fn_corpus, fn_top_k, fn_exclude)
    /\ fn_pc' = "returned"
    /\ UNCHANGED <<fn_target, fn_corpus, fn_top_k, fn_exclude>>
    /\ UNCHANGED <<store_vars, pass_vars, book_vars>>
    /\ UNCHANGED <<attr_vars, job_vars>>

-----------------------------------------------------------------------------
(* The datastore and the operations of Neo4jService *)

Procs == {1, 2}             \* the request handlers that may run a pass

PersonNames == {"p"}        \* names handed to create_person

\* embeddings the provider returns
StoreVectors == {<<5, 0>>, <<3, 4>>}

NoEmbedding == <<>>         \* a missing or empty q.embedding
NoAuthor == "none"          \* author_name = None
NoMatch == 0                \* no Quote node holds the text
NoRun == [top_k |-> 0, edges |-> EmptyBag]
NoLabel == -1               \* no cluster label
NoCoords == <<>>            \* umap_x, umap_y are None
NoResponse == [op |-> "none"]
NoSnapshot == [quotes |-> <<>>, umap |-> <<>>, edges |-> EmptyBag]

QuoteIds == DOMAIN quotes

\* the relationships of the bag B that touch none of the nodes in gone
Detach(B, gone) ==
    [e \in {x \in DOMAIN B : x[1] \notin gone /\ x[2] \notin gone} |-> B[e]]

\* the properties kept when the node gone is deleted
Without(f, gone) == [q \in DOMAIN f \ {gone} |-> f[q]]

\* Neo4jService.create_person: MERGE (p:Person {name})
CreatePersonNode(name) == persons \cup {name}

\* MERGE (q)-[:ATTRIBUTED_TO]->(p): one relationship more unless there is one
MergeAuthor(authors, name) ==
    IF BagIn(name, authors) THEN authors ELSE authors (+) SetToBag({name})

\* the Quote nodes after create_quote; m is the node that holds $text, or NoMatch
CreateQuoteNodes(m, author_name, embedding) ==
    IF author_name \notin persons THEN quotes          \* MATCH (p:Person) has no row
    ELSE IF m = NoMatch
         THEN [q \in QuoteIds \cup {next_id} |->
                  IF q = next_id
                  THEN [embedding |-> embedding, authors |-> SetToBag({author_name})]
                  ELSE quotes[q]]
         ELSE [quotes EXCEPT ![m] = [embedding |-> embedding,
                                     authors |-> MergeAuthor(@.authors, author_name)]]

\* the Quote nodes after update_quote(quote_id, author_name=, embedding=)
UpdateQuoteNodes(quote_id, author_name, embedding) ==
    IF quote_id \notin QuoteIds THEN quotes
    ELSE LET q == quotes[quote_id]
             rows == BagCardinality(q.authors)      \* one row per ATTRIBUTED_TO
             set_embedding == IF embedding = NoEmbedding THEN q.embedding ELSE embedding
         IN  IF rows = 0 THEN quotes
             ELSE IF author_name = NoAuthor
                  THEN [quotes EXCEPT ![quote_id].embedding = set_embedding]
                  ELSE IF author_name \in persons
                       THEN [quotes EXCEPT ![quote_id] =
                                [embedding |-> set_embedding,
                                 authors |-> [n \in {author_name} |-> rows]]]
                       ELSE [quotes EXCEPT ![quote_id].authors = EmptyBag]

\* delete_quote without DETACH semantics: the relationships stay behind
DeleteQuoteEdgesKept(quote_id) == edges

\* SIMILAR_TO after delete_quote: DETACH DELETE takes the node's relationships
DeleteQuoteEdges(quote_id) == Detach(edges, {quote_id})

\* the rows of the query, none dropped
EveryQuote == QuoteIds

\* the rows get_all_embeddings keeps: the nodes with a truthy embedding
WithEmbedding == {q \in QuoteIds : quotes[q].embedding # NoEmbedding}

\* the orders in which MATCH (q:Quote) may return the nodes of S
Orderings(S) ==
    {o \in [1..Cardinality(S) -> S] : \A i, j \in DOMAIN o : o[i] = o[j] => i = j}

\* Neo4jService.get_all_embeddings, the rows coming in the order o
GetAllEmbeddings(o) == [i \in DOMAIN o |-> <<o[i], quotes[o[i]].embedding>>]

\* the loop of recompute_similarity_edges_top_k: a dict in insertion order
TopKMap(embeddings, k) ==
    [i \in DOMAIN embeddings |->
        <<embeddings[i][1],
          FindTopSimilar(embeddings[i][2], embeddings, k, embeddings[i][1])>>]

\* the statements issued with the similarity taken from the nodes as they
\* are now, not from the lists computed at the start
RECURSIVE EdgeListFresh(_)
EdgeListFresh(map) ==
    IF map = <<>> THEN <<>>
    ELSE LET src == Head(map)[1]
             sim == Head(map)[2]
             now(t) == IF src \in QuoteIds /\ t \in QuoteIds
                       THEN ComputeCosineSimilarity(quotes[src].embedding,
                                                    quotes[t].embedding)
                       ELSE ZeroScore
         IN  [j \in 1..Len(sim) |-> <<src, sim[j][1], now(sim[j][1])>>]
                 \o EdgeListFresh(Tail(map))

\* the <<source, target, similarity>> in the order the two loops of
\* create_similarity_edges_top_k visit them
RECURSIVE EdgeList(_)
EdgeList(map) ==
    IF map = <<>> THEN <<>>
    ELSE LET src == Head(map)[1]
             sim == Head(map)[2]
         IN  [j \in 1..Len(sim) |-> <<src, sim[j][1], sim[j][2]>>] \o EdgeList(Tail(map))

\* the clearing statement left out
ClearedEdgesKept == edges

\* SIMILAR_TO after "MATCH ()-[r:SIMILAR_TO]->() DELETE r"
ClearedEdges == EmptyBag

\* SIMILAR_TO after one "MATCH (q1), (q2) CREATE (q1)-[:SIMILAR_TO]->(q2)"
CreatedEdge(e) ==
    IF e[1] \in QuoteIds /\ e[2] \in QuoteIds THEN edges (+) SetToBag({e}) ELSE edges

\* the similar_to entries get_graph_data appends to its edges, as a bag
GraphSimilarEdges ==
    LET entry(x) == [source |-> x[1], target |-> x[2],
                     type |-> "similar_to", weight |-> x[3]]
    IN  [d \in {entry(x) : x \in DOMAIN edges} |->
            edges[CHOOSE x \in DOMAIN edges : entry(x) = d]]

\* q.cluster_id and the coordinates as quote.get(...) reads them
ClusterOf(q) == IF q \in DOMAIN cluster_id THEN cluster_id[q] ELSE NoLabel

UmapOf(q) == IF q \in DOMAIN umap THEN umap[q] ELSE NoCoords

\* the names of the persons a node is attributed to
AuthorsOf(q) == BagToSet(quotes[q].authors)

\* the rows of "MATCH (q:Quote)-[:ATTRIBUTED_TO]->(p:Person) RETURN q, p"
\* (one per relationship; r = <<quote id, person name>> names its two ends)
AttributedRows == {r \in QuoteIds \X persons : BagIn(r[2], quotes[r[1]].authors)}

\* the quote nodes get_graph_data appends: one per row
GraphQuoteNodes ==
    LET node(r) == [id |-> r[1], type |-> "quote", author |-> r[2],
                    umap |-> UmapOf(r[1]), cluster_id |-> ClusterOf(r[1])]
    IN  [n \in {node(r) : r \in AttributedRows} |->
            quotes[n.id].authors[n.author]]

\* the person nodes get_graph_data appends: one per person not in people_seen
GraphPersonNodes ==
    SetToBag({[id |-> r[2], type |-> "person"] : r \in AttributedRows})

\* the attributed_to entries get_graph_data appends to its edges: one per row
GraphAttributedEdges ==
    LET entry(r) == [source |-> r[1], target |-> r[2], type |-> "attributed_to"]
    IN  [d \in {entry(r) : r \in AttributedRows} |->
            quotes[d.source].authors[d.target]]

\* Neo4jService.get_graph_data
GetGraphData ==
    [op |-> "graph",
     quote_nodes |-> GraphQuoteNodes,
     person_nodes |-> GraphPersonNodes,
     attributed_to |-> GraphAttributedEdges,
     similar_to |-> GraphSimilarEdges]

\* whether Neo4jService.get_quote returns a quote: the MATCH needs an
\* ATTRIBUTED_TO relationship
GetQuoteFound(quote_id) ==
    quote_id \in QuoteIds /\ quotes[quote_id].authors # EmptyBag

\* the loop at the end of find_similar_quotes: the entries get_quote finds
RECURSIVE FetchSimilar(_)
FetchSimilar(similar_ids_scores) ==
    IF similar_ids_scores = <<>> THEN <<>>
    ELSE LET x == Head(similar_ids_scores)
         IN  (IF GetQuoteFound(x[1]) THEN <<x>> ELSE <<>>)
                 \o FetchSimilar(Tail(similar_ids_scores))

\* SimilarityService.find_similar_quotes: every path ends in a return, none
\* in a raise; o is the order of the rows of get_all_embeddings
FindSimilarQuotes(quote_id, top_k, o) ==
    IF ~GetQuoteFound(quote_id) THEN [kind |-> "returned", value |-> <<>>]
    ELSE IF quotes[quote_id].embedding = NoEmbedding
         THEN [kind |-> "returned", value |-> <<>>]
         ELSE [kind |-> "returned",
               value |-> FetchSimilar(FindTopSimilar(quotes[quote_id].embedding,
                                                     GetAllEmbeddings(o),
                                                     top_k, quote_id))]

\* the endpoint GET /similar/{quote_id}
GetSimilarQuotes(quote_id, top_k, o) ==
    LET similar_quotes == FindSimilarQuotes(quote_id, top_k, o)
    IN  [op |-> "similar",
         quote_id |-> quote_id,
         top_k |-> top_k,
         similar_quotes |-> similar_quotes,
         status |-> IF similar_quotes.value = <<>> /\ ~GetQuoteFound(quote_id)
                    THEN 404 ELSE 200]

\* a / b on rationals; a + b
RatAdd(a, b) == Rat(a[1] * b[2] + b[1] * a[2], a[2] * b[2])

\* the quotient taken whatever the divisor: ZeroDivisionError on 0
DivideUnguarded(n, d) == IF d = 0 THEN NaNScore ELSE Rat(n, d)

\* "n / d if d > 0 else 0"
DivideOrZero(n, d) == IF d > 0 THEN Rat(n, d) ELSE ZeroScore

\* the sum of s.similarity over the relationships of the bag B
RECURSIVE SumSimilarity(_)
SumSimilarity(B) ==
    IF DOMAIN B = {} THEN ZeroScore
    ELSE LET e == CHOOSE x \in DOMAIN B : TRUE
             rest == [x \in DOMAIN B \ {e} |-> B[x]]
         IN  RatAdd(Rat(e[3][1] * B[e], e[3][2]), SumSimilarity(rest))

\* the relationships that leave a quote of cluster c, wherever they end
WithinBySource(c) ==
    [e \in {x \in DOMAIN edges : ClusterOf(x[1]) = c} |-> edges[e]]

\* the rows of "OPTIONAL MATCH (q1)-[s:SIMILAR_TO]->(q2) WHERE q1.cluster_id =
\* cluster_id AND q2.cluster_id = cluster_id"
Within(c) ==
    [e \in {x \in DOMAIN edges : ClusterOf(x[1]) = c /\ ClusterOf(x[2]) = c} |-> edges[e]]

\* the third query of get_analytics_stats: one row per cluster_id
ClusterDistribution ==
    LET avg(c) == IF Within(c) = EmptyBag THEN ZeroScore
                  ELSE LET t == SumSimilarity(Within(c))
                       IN  Rat(t[1], t[2] * BagCardinality(Within(c)))
    IN  [c \in {cluster_id[q] : q \in DOMAIN cluster_id} |->
            [quote_count |-> Cardinality({q \in DOMAIN cluster_id : cluster_id[q] = c}),
             avg_similarity |-> avg(c)]]

\* the sum of quote_count over the rows of the distribution d
RECURSIVE SumQuoteCount(_)
SumQuoteCount(d) ==
    IF DOMAIN d = {} THEN 0
    ELSE LET c == CHOOSE x \in DOMAIN d : TRUE
         IN  d[c].quote_count + SumQuoteCount([x \in DOMAIN d \ {c} |-> d[x]])

\* Neo4jService.get_analytics_stats. The first query matches the quotes
\* before the persons: without a quote it has no row to count a person in.
GetAnalyticsStats ==
    LET total_quotes == Cardinality(QuoteIds)
        total_people == IF QuoteIds = {} THEN 0 ELSE Cardinality(persons)
        top_people == [name \in {r[2] : r \in AttributedRows} |->
                          BagCardinality([r \in {x \in DOMAIN GraphAttributedEdges :
                                                   x.target = name}
                                             |-> GraphAttributedEdges[r]])]
        cluster_distribution == ClusterDistribution
        total_clusters == Cardinality(DOMAIN cluster_distribution)
    IN  [op |-> "stats",
         total_quotes |-> total_quotes,
         total_people |-> total_people,
         avg_quotes_per_person |-> DivideOrZero(total_quotes, total_people),
         top_people |-> top_people,
         total_clusters |-> total_clusters,
         cluster_distribution |-> cluster_distribution,
         avg_cluster_size |-> DivideOrZero(SumQuoteCount(cluster_distribution),
                                           total_clusters)]

-----------------------------------------------------------------------------
(* Actions on the datastore *)

CreatePerson(name) ==
    /\ name \notin persons
    /\ persons' = CreatePersonNode(name)
    /\ UNCHANGED <<quotes, edges, next_id>>
    /\ UNCHANGED pass_vars
    /\ UNCHANGED <<fn_vars, attr_vars, job_vars>>

CreateQuote(m, author_name, embedding) ==
    /\ quotes' = CreateQuoteNodes(m, author_name, embedding)
    /\ quotes' # quotes
    /\ next_id' = IF m = NoMatch THEN next_id + 1 ELSE next_id
    /\ UNCHANGED <<persons, edges>>
    /\ UNCHANGED pass_vars
    /\ UNCHANGED <<fn_vars, attr_vars, job_vars>>

UpdateQuote(quote_id, author_name, embedding) ==
    /\ quotes' = UpdateQuoteNodes(quote_id, author_name, embedding)
    /\ quotes' # quotes
    /\ UNCHANGED <<persons, edges, next_id>>
    /\ UNCHANGED pass_vars
    /\ UNCHANGED <<fn_vars, attr_vars, job_vars>>

DeleteQuote(quote_id) ==
    /\ quote_id \in QuoteIds
    /\ quotes' = [q \in QuoteIds \ {quote_id} |-> quotes[q]]
    /\ edges' = DeleteQuoteEdges(quote_id)
    /\ cluster_id' = Without(cluster_id, quote_id)
    /\ umap' = Without(umap, quote_id)
    /\ UNCHANGED <<persons, next_id>>
    /\ UNCHANGED pass_vars
    /\ UNCHANGED <<fn_vars, job_vars>>

-----------------------------------------------------------------------------
(* scripts/compute_clusters.py *)

\* n_clusters handed on as it was asked
AdjustedNone(n_clusters, size) == n_clusters

\* compute_clusters 30-33: the count is replaced when the corpus is smaller
AdjustedClusters(n_clusters, size) ==
    IF size < n_clusters THEN Max(2, size \div 10) ELSE n_clusters

\* compute_clusters 38-54: normalize rejects an empty matrix and
\* KMeans.fit_predict rejects n_samples < n_clusters, both with ValueError
FitFails(n_clusters, size) == size = 0 \/ size < n_clusters

\* cluster_id kept where the node already carries one
SetClusterIdIfAbsent(quote_id, c) ==
    IF quote_id \in QuoteIds /\ quote_id \notin DOMAIN cluster_id
    THEN [q \in DOMAIN cluster_id \cup {quote_id} |->
             IF q = quote_id THEN c ELSE cluster_id[q]]
    ELSE cluster_id

\* cluster_id after one "MATCH (q:Quote {id}) SET q.cluster_id = $cluster_id"
SetClusterId(quote_id, c) ==
    IF quote_id \in QuoteIds
    THEN [q \in DOMAIN cluster_id \cup {quote_id} |->
             IF q = quote_id THEN c ELSE cluster_id[q]]
    ELSE cluster_id

\* compute_clusters 27-69: the corpus is read in the order o, the count is
\* adjusted, KMeans yields cluster_labels (one label below n_clusters per
\* row) and the dict updates is built
ClusterFit(n_clusters, o, cluster_labels) ==
    LET embeddings_data == GetAllEmbeddings(o)
        n == AdjustedClusters(n_clusters, Len(embeddings_data))
    IN  /\ cj_pc = "idle"
        /\ cj_prior' = cluster_id
        /\ cj_embeddings_data' = embeddings_data
        /\ cj_n_clusters' = n
        /\ IF FitFails(n, Len(embeddings_data))
           THEN /\ cj_pc' = "failed"
                /\ cj_updates' = <<>>
                /\ cj_pos' = 0
           ELSE /\ \A i \in DOMAIN cluster_labels : cluster_labels[i] < n
                /\ cj_updates' = [i \in DOMAIN embeddings_data |->
                                      <<embeddings_data[i][1], cluster_labels[i]>>]
                /\ cj_pos' = 1
                /\ cj_pc' = "updating"
        /\ UNCHANGED <<store_vars, attr_vars, pass_vars, fn_vars>>
        /\ UNCHANGED <<ad_vars, pj_vars, mg_vars, response>>

\* neo4j_service.py 341-349: one SET statement of update_cluster_ids
ClusterUpdate ==
    /\ cj_pc = "updating"
    /\ cj_pos <= Len(cj_updates)
    /\ cluster_id' = SetClusterId(cj_updates[cj_pos][1], cj_updates[cj_pos][2])
    /\ cj_pos' = cj_pos + 1
    /\ UNCHANGED <<cj_pc, cj_n_clusters, cj_embeddings_data, cj_updates, cj_prior>>
    /\ UNCHANGED <<store_vars, umap, pass_vars, fn_vars>>
    /\ UNCHANGED <<ad_vars, pj_vars, mg_vars, response>>

\* compute_clusters 72-80: update_cluster_ids has returned
ClusterDone ==
    /\ cj_pc = "updating"
    /\ cj_pos > Len(cj_updates)
    /\ cj_pc' = "done"
    /\ cj_prior' = <<>>
    /\ UNCHANGED <<cj_n_clusters, cj_embeddings_data, cj_updates, cj_pos>>
    /\ UNCHANGED <<store_vars, attr_vars, pass_vars, fn_vars>>
    /\ UNCHANGED <<ad_vars, pj_vars, mg_vars, response>>

\* the script ends, by its last line or by the uncaught ValueError
ClusterExit ==
    /\ cj_pc \in {"done", "failed"}
    /\ cj_pc' = "idle"
    /\ cj_n_clusters' = 0
    /\ cj_embeddings_data' = <<>>
    /\ cj_updates' = <<>>
    /\ cj_pos' = 0
    /\ cj_prior' = <<>>
    /\ UNCHANGED <<store_vars, attr_vars, pass_vars, fn_vars>>
    /\ UNCHANGED <<ad_vars, pj_vars, mg_vars, response>>

\* compute_clusters 27-54 on a corpus of ad_size rows: the count handed to
\* KMeans and, when the fit succeeds, any one of its labels
ClusterCount(label) ==
    LET n == AdjustedClusters(ad_requested, ad_size)
    IN  /\ ad_pc = "ready"
        /\ ad_n_clusters' = n
        /\ IF FitFails(n, ad_size)
           THEN ad_pc' = "failed" /\ ad_label' = NoLabel
           ELSE label < n /\ ad_pc' = "fitted" /\ ad_label' = label
        /\ UNCHANGED <<ad_size, ad_requested>>
        /\ UNCHANGED <<store_vars, attr_vars, pass_vars, fn_vars>>
        /\ UNCHANGED <<cj_vars, pj_vars, mg_vars, response>>

-----------------------------------------------------------------------------
(* UMAPService.compute_2d_projection *)

\* the smallest and the largest of the column c of coords_2d
ColumnMin(coords_2d, c) ==
    CHOOSE v \in {coords_2d[i][c] : i \in DOMAIN coords_2d} :
        \A i \in DOMAIN coords_2d : v <= coords_2d[i][c]

ColumnMax(coords_2d, c) ==
    CHOOSE v \in {coords_2d[i][c] : i \in DOMAIN coords_2d} :
        \A i \in DOMAIN coords_2d : v >= coords_2d[i][c]

\* "x_max - x_min if x_max != x_min else 1.0"
AxisRange(lo, hi) == IF hi # lo THEN hi - lo ELSE 1

\* the raw value handed back
NormalizeNone(v, lo, range) == Rat(v, 1)

\* (coords_2d[:, c] - x_min) / x_range
Normalize(v, lo, range) == Rat(v - lo, range)

\* compute_2d_projection, coords_2d being what fit_transform returns for the
\* embeddings (one row each); the dict is keyed by the position of the id
Compute2dProjection(coords_2d) ==
    IF Len(coords_2d) < 2 THEN <<>>
    ELSE LET x_min == ColumnMin(coords_2d, 1)
             x_max == ColumnMax(coords_2d, 1)
             y_min == ColumnMin(coords_2d, 2)
             y_max == ColumnMax(coords_2d, 2)
             x_range == AxisRange(x_min, x_max)
             y_range == AxisRange(y_min, y_max)
         IN  [i \in DOMAIN coords_2d |->
                 <<Normalize(coords_2d[i][1], x_min, x_range),
                   Normalize(coords_2d[i][2], y_min, y_range)>>]

ProjectionCall ==
    /\ pj_pc = "ready"
    /\ pj_result' = Compute2dProjection(pj_coords_2d)
    /\ pj_pc' = "returned"
    /\ UNCHANGED pj_coords_2d
    /\ UNCHANGED <<store_vars, attr_vars, pass_vars, fn_vars>>
    /\ UNCHANGED <<cj_vars, ad_vars, mg_vars, response>>

-----------------------------------------------------------------------------
(* scripts/migrate_to_openai.py *)

\* top_k=5 of the script's find_top_similar calls
MigrateTopK == 5

\* the embeddings the provider may return for a text
ProviderVectors == {<<4, 3>>, <<0, 5>>}

\* the values of the columns fit_transform may return
MigrateCoords == {0, 2}

\* the ids of the rows of list_quotes(limit=10000): the quotes that have an
\* author (one row each where each has one)
Listed == {q \in QuoteIds : quotes[q].authors # EmptyBag}

\* "ORDER BY q.created_at DESC": the latest quote first, the ids being handed
\* out in the order of creation
ListQuotes ==
    CHOOSE o \in Orderings(Listed) : \A i, j \in DOMAIN o : i < j => o[i] > o[j]

\* the embeddings of a batch stored as soon as the batch is returned
QuotesWrittenPerBatch(ids, chunk) ==
    [q \in QuoteIds |->
        IF \E i \in DOMAIN ids : ids[i] = q
        THEN [quotes[q] EXCEPT !.embedding =
                 chunk[CHOOSE i \in DOMAIN ids : ids[i] = q]]
        ELSE quotes[q]]

\* the Quote nodes after one round of generate_embeddings_batch: the
\* embeddings only extend the local list all_embeddings
QuotesAfterBatch(ids, chunk) == quotes

\* the coordinates after one "MATCH (q:Quote {id}) SET q.umap_x = $x, q.umap_y = $y"
SetUmap(quote_id, xy) ==
    IF quote_id \in QuoteIds
    THEN [q \in DOMAIN umap \cup {quote_id} |-> IF q = quote_id THEN xy ELSE umap[q]]
    ELSE umap

\* embeddings_with_ids = list(zip(quote_ids, embeddings))
EmbeddingsWithIds ==
    [i \in DOMAIN mg_quote_ids |-> <<mg_quote_ids[i], mg_embeddings[i]>>]

\* lines 29-41: the quotes are listed, in the order o; without quotes the
\* script ends
MigrateStart(batch_size, o) ==
    /\ mg_pc = "idle"
    /\ mg_before' = [quotes |-> quotes, umap |-> umap, edges |-> edges]
    /\ mg_batch_size' = batch_size
    /\ mg_quote_ids' = o
    /\ mg_embeddings' = <<>>
    /\ mg_pc' = IF Len(o) = 0 THEN "done" ELSE "embedding"
    /\ UNCHANGED <<mg_pos, mg_umap_coords, mg_top_k_map>>
    /\ UNCHANGED <<store_vars, attr_vars, pass_vars, fn_vars>>
    /\ UNCHANGED <<cj_vars, ad_vars, pj_vars, response>>

\* nlp_service.py 28-35: the provider answers one chunk of batch_size texts
BatchReturned(chunk) ==
    LET done == Len(mg_embeddings)
    IN  /\ mg_pc = "embedding"
        /\ done < Len(mg_quote_ids)
        /\ Len(chunk) = Min(mg_batch_size, Len(mg_quote_ids) - done)
        /\ mg_embeddings' = mg_embeddings \o chunk
        /\ quotes' = QuotesAfterBatch(SubSeq(mg_quote_ids, done + 1, done + Len(chunk)), chunk)
        /\ UNCHANGED <<mg_pc, mg_batch_size, mg_quote_ids, mg_pos, mg_umap_coords,
                       mg_top_k_map, mg_before>>
        /\ UNCHANGED <<persons, edges, next_id>>
        /\ UNCHANGED <<attr_vars, pass_vars, fn_vars>>
        /\ UNCHANGED <<cj_vars, ad_vars, pj_vars, response>>

\* the provider call of a chunk raises; migrate_embeddings 47-51 prints the
\* error, closes the driver and returns
BatchFailed ==
    /\ mg_pc = "embedding"
    /\ Len(mg_embeddings) < Len(mg_quote_ids)
    /\ mg_pc' = "provider_failed"
    /\ UNCHANGED <<mg_batch_size, mg_quote_ids, mg_embeddings, mg_pos, mg_umap_coords,
                   mg_top_k_map, mg_before>>
    /\ UNCHANGED <<store_vars, attr_vars, pass_vars, fn_vars>>
    /\ UNCHANGED <<cj_vars, ad_vars, pj_vars, response>>

\* generate_embeddings_batch returns all_embeddings
BatchesDone ==
    /\ mg_pc = "embedding"
    /\ Len(mg_embeddings) = Len(mg_quote_ids)
    /\ mg_pc' = "updating"
    /\ mg_pos' = 1
    /\ UNCHANGED <<mg_batch_size, mg_quote_ids, mg_embeddings, mg_umap_coords,
                   mg_top_k_map, mg_before>>
    /\ UNCHANGED <<store_vars, attr_vars, pass_vars, fn_vars>>
    /\ UNCHANGED <<cj_vars, ad_vars, pj_vars, response>>

\* lines 55-56: one update_quote(quote_id, embedding=embedding)
MigrateUpdate ==
    /\ mg_pc = "updating"
    /\ mg_pos <= Len(mg_quote_ids)
    /\ quotes' = UpdateQuoteNodes(mg_quote_ids[mg_pos], NoAuthor, mg_embeddings[mg_pos])
    /\ mg_pos' = mg_pos + 1
    /\ UNCHANGED <<mg_pc, mg_batch_size, mg_quote_ids, mg_embeddings, mg_umap_coords,
                   mg_top_k_map, mg_before>>
    /\ UNCHANGED <<persons, edges, next_id>>
    /\ UNCHANGED <<attr_vars, pass_vars, fn_vars>>
    /\ UNCHANGED <<cj_vars, ad_vars, pj_vars, response>>

\* lines 63-67: compute_2d_projection, fit_transform returning coords_2d
MigrateProject(coords_2d) ==
    /\ mg_pc = "updating"
    /\ mg_pos > Len(mg_quote_ids)
    /\ Len(coords_2d) = Len(mg_quote_ids)
    /\ mg_umap_coords' =
          LET result == Compute2dProjection(coords_2d)
          IN  [i \in DOMAIN result |-> <<mg_quote_ids[i], result[i]>>]
    /\ mg_pc' = "storing"
    /\ mg_pos' = 1
    /\ UNCHANGED <<mg_batch_size, mg_quote_ids, mg_embeddings, mg_top_k_map, mg_before>>
    /\ UNCHANGED <<store_vars, attr_vars, pass_vars, fn_vars>>
    /\ UNCHANGED <<cj_vars, ad_vars, pj_vars, response>>

\* lines 68-71: compute_2d_projection raises; the script prints and returns
MigrateProjectFailed ==
    /\ mg_pc = "updating"
    /\ mg_pos > Len(mg_quote_ids)
    /\ mg_pc' = "projection_failed"
    /\ UNCHANGED <<mg_batch_size, mg_quote_ids, mg_embeddings, mg_pos, mg_umap_coords,
                   mg_top_k_map, mg_before>>
    /\ UNCHANGED <<store_vars, attr_vars, pass_vars, fn_vars>>
    /\ UNCHANGED <<cj_vars, ad_vars, pj_vars, response>>

\* neo4j_service.py 327-336: one SET statement of update_umap_coordinates
MigrateStoreUmap ==
    /\ mg_pc = "storing"
    /\ mg_pos <= Len(mg_umap_coords)
    /\ umap' = SetUmap(mg_umap_coords[mg_pos][1], mg_umap_coords[mg_pos][2])
    /\ mg_pos' = mg_pos + 1
    /\ UNCHANGED <<mg_pc, mg_batch_size, mg_quote_ids, mg_embeddings, mg_umap_coords,
                   mg_top_k_map, mg_before>>
    /\ UNCHANGED <<store_vars, cluster_id, pass_vars, fn_vars>>
    /\ UNCHANGED <<cj_vars, ad_vars, pj_vars, response>>

\* lines 80-88: the lists are computed from the new embeddings
MigrateCompute ==
    /\ mg_pc = "storing"
    /\ mg_pos > Len(mg_umap_coords)
    /\ mg_top_k_map' = TopKMap(EmbeddingsWithIds, MigrateTopK)
    /\ mg_pc' = "computed"
    /\ UNCHANGED <<mg_batch_size, mg_quote_ids, mg_embeddings, mg_pos, mg_umap_coords,
                   mg_before>>
    /\ UNCHANGED <<store_vars, attr_vars, pass_vars, fn_vars>>
    /\ UNCHANGED <<cj_vars, ad_vars, pj_vars, response>>

\* line 97, neo4j_service.py 355: every SIMILAR_TO relationship is deleted
MigrateClear ==
    /\ mg_pc = "computed"
    /\ edges' = ClearedEdges
    /\ mg_pos' = 1
    /\ mg_pc' = "inserting"
    /\ UNCHANGED <<mg_batch_size, mg_quote_ids, mg_embeddings, mg_umap_coords,
                   mg_top_k_map, mg_before>>
    /\ UNCHANGED <<persons, quotes, next_id>>
    /\ UNCHANGED <<attr_vars, pass_vars, fn_vars>>
    /\ UNCHANGED <<cj_vars, ad_vars, pj_vars, response>>

\* neo4j_service.py 358-368: one CREATE statement
MigrateCreate ==
    /\ mg_pc = "inserting"
    /\ mg_pos <= Len(EdgeList(mg_top_k_map))
    /\ edges' = CreatedEdge(EdgeList(mg_top_k_map)[mg_pos])
    /\ mg_pos' = mg_pos + 1
    /\ UNCHANGED <<mg_pc, mg_batch_size, mg_quote_ids, mg_embeddings, mg_umap_coords,
                   mg_top_k_map, mg_before>>
    /\ UNCHANGED <<persons, quotes, next_id>>
    /\ UNCHANGED <<attr_vars, pass_vars, fn_vars>>
    /\ UNCHANGED <<cj_vars, ad_vars, pj_vars, response>>

\* lines 98-111: the summary is printed
MigrateDone ==
    /\ mg_pc = "inserting"
    /\ mg_pos > Len(EdgeList(mg_top_k_map))
    /\ mg_pc' = "done"
    /\ UNCHANGED <<mg_batch_size, mg_quote_ids, mg_embeddings, mg_pos, mg_umap_coords,
                   mg_top_k_map, mg_before>>
    /\ UNCHANGED <<store_vars, attr_vars, pass_vars, fn_vars>>
    /\ UNCHANGED <<cj_vars, ad_vars, pj_vars, response>>

\* the script ends, by its last line or by one of its returns
MigrateExit ==
    /\ mg_pc \in {"done", "provider_failed", "projection_failed"}
    /\ mg_pc' = "exited"
    /\ mg_batch_size' = 0
    /\ mg_quote_ids' = <<>>
    /\ mg_embeddings' = <<>>
    /\ mg_pos' = 0
    /\ mg_umap_coords' = <<>>
    /\ mg_top_k_map' = <<>>
    /\ mg_before' = NoSnapshot
    /\ UNCHANGED <<store_vars, attr_vars, pass_vars, fn_vars>>
    /\ UNCHANGED <<cj_vars, ad_vars, pj_vars, response>>

-----------------------------------------------------------------------------
(* The read endpoints *)

\* the read endpoints: the handler's return value is the response
SimilarRequest(quote_id, top_k, o) ==
    /\ response = NoResponse
    /\ response' = GetSimilarQuotes(quote_id, top_k, o)
    /\ UNCHANGED <<store_vars, attr_vars, pass_vars, fn_vars, cj_vars, ad_vars, pj_vars, mg_vars>>

StatsRequest ==
    /\ response = NoResponse
    /\ response' = GetAnalyticsStats
    /\ UNCHANGED <<store_vars, attr_vars, pass_vars, fn_vars, cj_vars, ad_vars, pj_vars, mg_vars>>

GraphRequest ==
    /\ response = NoResponse
    /\ response' = GetGraphData
    /\ UNCHANGED <<store_vars, attr_vars, pass_vars, fn_vars, cj_vars, ad_vars, pj_vars, mg_vars>>

\* the response has been sent
Deliver ==
    /\ response # NoResponse
    /\ response' = NoResponse
    /\ UNCHANGED <<store_vars, attr_vars, pass_vars, fn_vars, cj_vars, ad_vars, pj_vars, mg_vars>>

-----------------------------------------------------------------------------
(* One pass of SimilarityService.recompute_similarity_edges_top_k, request p *)

\* the relationships cleared when the corpus is read
EdgesReadCleared == EmptyBag

\* SIMILAR_TO after get_all_embeddings: "MATCH (q:Quote) RETURN ..." writes nothing
EdgesRead == edges

\* similarity.py 65-75: the corpus is read once, the lists are computed from it
ReadCorpus(p, k, o) ==
    /\ pc[p] = "idle"
    /\ rc_top_k' = [rc_top_k EXCEPT ![p] = k]
    /\ rc_all_embeddings' = [rc_all_embeddings EXCEPT ![p] = GetAllEmbeddings(o)]
    /\ top_k_map' = [top_k_map EXCEPT ![p] = TopKMap(GetAllEmbeddings(o), k)]
    /\ pc' = [pc EXCEPT ![p] = "computed"]
    /\ edges' = EdgesRead
    /\ UNCHANGED <<pos, ret>>
    /\ UNCHANGED <<persons, quotes, next_id>>
    /\ UNCHANGED <<fn_vars, attr_vars, job_vars>>

\* neo4j_service.py 355: every SIMILAR_TO relationship is deleted
ClearEdges(p) ==
    /\ pc[p] = "computed"
    /\ edges' = ClearedEdges
    /\ pos' = [pos EXCEPT ![p] = 1]
    /\ pc' = [pc EXCEPT ![p] = "inserting"]
    /\ UNCHANGED <<rc_top_k, rc_all_embeddings, top_k_map, ret>>
    /\ UNCHANGED <<persons, quotes, next_id>>
    /\ UNCHANGED <<fn_vars, attr_vars, job_vars>>

\* neo4j_service.py 358-368: one CREATE statement
CreateEdge(p) ==
    /\ pc[p] = "inserting"
    /\ pos[p] <= Len(EdgeList(top_k_map[p]))
    /\ edges' = CreatedEdge(EdgeList(top_k_map[p])[pos[p]])
    /\ pos' = [pos EXCEPT ![p] = @ + 1]
    /\ UNCHANGED <<pc, rc_top_k, rc_all_embeddings, top_k_map, ret>>
    /\ UNCHANGED <<persons, quotes, next_id>>
    /\ UNCHANGED <<fn_vars, attr_vars, job_vars>>

\* similarity.py 79-84: the counts are returned
Return(p) ==
    /\ pc[p] = "inserting"
    /\ pos[p] > Len(EdgeList(top_k_map[p]))
    /\ ret' = [ret EXCEPT ![p] =
                  [total_quotes |-> Len(rc_all_embeddings[p]),
                   similarity_edges_created |-> Len(EdgeList(top_k_map[p])),
                   top_k |-> rc_top_k[p]]]
    /\ pc' = [pc EXCEPT ![p] = "done"]
    /\ UNCHANGED <<rc_top_k, rc_all_embeddings, top_k_map, pos>>
    /\ UNCHANGED store_vars
    /\ UNCHANGED <<fn_vars, attr_vars, job_vars>>

\* similarity.py 65-77: an exception or a cancellation ends the pass before
\* create_similarity_edges_top_k is entered; nothing catches it
Fail(p) ==
    /\ pc[p] = "computed"
    /\ pc' = [pc EXCEPT ![p] = "failed"]
    /\ UNCHANGED <<rc_top_k, rc_all_embeddings, top_k_map, pos, ret>>
    /\ UNCHANGED store_vars
    /\ UNCHANGED <<fn_vars, attr_vars, job_vars>>

\* the error response is sent; the request's locals are gone
RespondError(p) ==
    /\ pc[p] = "failed"
    /\ pc' = [pc EXCEPT ![p] = "idle"]
    /\ rc_top_k' = [rc_top_k EXCEPT ![p] = 0]
    /\ rc_all_embeddings' = [rc_all_embeddings EXCEPT ![p] = <<>>]
    /\ top_k_map' = [top_k_map EXCEPT ![p] = <<>>]
    /\ UNCHANGED <<pos, ret>>
    /\ UNCHANGED store_vars
    /\ UNCHANGED <<fn_vars, attr_vars, job_vars>>

\* the response is sent; the request's locals are gone
Respond(p) ==
    /\ pc[p] = "done"
    /\ pc' = [pc EXCEPT ![p] = "idle"]
    /\ rc_top_k' = [rc_top_k EXCEPT ![p] = 0]
    /\ rc_all_embeddings' = [rc_all_embeddings EXCEPT ![p] = <<>>]
    /\ top_k_map' = [top_k_map EXCEPT ![p] = <<>>]
    /\ pos' = [pos EXCEPT ![p] = 0]
    /\ ret' = [ret EXCEPT ![p] = NoRun]
    /\ UNCHANGED store_vars
    /\ UNCHANGED <<fn_vars, attr_vars, job_vars>>

-----------------------------------------------------------------------------
(* Specifications *)

FnIdle ==
    /\ fn_pc = "returned"
    /\ fn_target = <<0, 0>>
    /\ fn_corpus = <<>>
    /\ fn_top_k = 0
    /\ fn_exclude = NoneId
    /\ fn_result = <<>>

StoreInit ==
    /\ persons = {}
    /\ quotes = <<>>
    /\ edges = EmptyBag
    /\ next_id = 1
    /\ pc = [p \in Procs |-> "idle"]
    /\ rc_top_k = [p \in Procs |-> 0]
    /\ rc_all_embeddings = [p \in Procs |-> <<>>]
    /\ top_k_map = [p \in Procs |-> <<>>]
    /\ pos = [p \in Procs |-> 0]
    /\ ret = [p \in Procs |-> NoRun]
    /\ passes = 0
    /\ delete_seen = [p \in Procs |-> FALSE]
    /\ last_run = NoRun
    /\ cluster_id = <<>>
    /\ umap = <<>>

\* scripts/migrate_to_openai.py not running
MigrateIdle ==
    /\ mg_pc = "idle"
    /\ mg_batch_size = 0
    /\ mg_quote_ids = <<>>
    /\ mg_embeddings = <<>>
    /\ mg_pos = 0
    /\ mg_umap_coords = <<>>
    /\ mg_top_k_map = <<>>
    /\ mg_before = NoSnapshot

\* no script running, no read request in flight
JobsIdle ==
    /\ cj_pc = "idle"
    /\ cj_n_clusters = 0
    /\ cj_embeddings_data = <<>>
    /\ cj_updates = <<>>
    /\ cj_pos = 0
    /\ cj_prior = <<>>
    /\ ad_pc = "idle"
    /\ ad_size = 0
    /\ ad_requested = 0
    /\ ad_n_clusters = 0
    /\ ad_label = NoLabel
    /\ pj_pc = "idle"
    /\ pj_coords_2d = <<>>
    /\ pj_result = <<>>
    /\ MigrateIdle
    /\ response = NoResponse

Init == FnIdle /\ StoreInit /\ JobsIdle

\* The API serves its requests concurrently and the recompute endpoint takes
\* no lock: passes interleave with each other and with CRUD.
Next ==
    \/ \E name \in PersonNames : CreatePerson(name) /\ UNCHANGED book_vars
    \/ \E m \in {NoMatch} \cup QuoteIds, a \in PersonNames, e \in StoreVectors :
          /\ m = NoMatch => next_id <= MaxShared
          /\ CreateQuote(m, a, e)
          /\ UNCHANGED book_vars
    \/ \E q \in QuoteIds, a \in {NoAuthor} \cup PersonNames,
          e \in {NoEmbedding} \cup StoreVectors :
          UpdateQuote(q, a, e) /\ UNCHANGED book_vars
    \/ \E q \in QuoteIds : DeleteQuote(q) /\ UNCHANGED book_vars
    \/ \E p \in Procs, k \in 1..MaxPassK, o \in Orderings(WithEmbedding) :
          ReadCorpus(p, k, o) /\ UNCHANGED book_vars
    \/ \E p \in Procs : ClearEdges(p) /\ UNCHANGED book_vars
    \/ \E p \in Procs : CreateEdge(p) /\ UNCHANGED book_vars
    \/ \E p \in Procs : Return(p) /\ UNCHANGED book_vars
    \/ \E p \in Procs : Respond(p) /\ UNCHANGED book_vars

Spec == Init /\ [][Next]_vars

\* a deletion is noted on every request that has read its corpus
NoteDelete ==
    /\ delete_seen' = [p \in Procs |-> delete_seen[p] \/ pc[p] # "idle"]
    /\ UNCHANGED <<passes, last_run>>

NoteStart(p) ==
    /\ delete_seen' = [delete_seen EXCEPT ![p] = FALSE]
    /\ UNCHANGED <<passes, last_run>>

\* One maintenance pass at a time (request 1), CRUD going on beside it.
NextSolo ==
    \/ \E name \in PersonNames : CreatePerson(name) /\ UNCHANGED book_vars
    \/ \E m \in {NoMatch} \cup QuoteIds, a \in PersonNames, e \in StoreVectors :
          /\ m = NoMatch => next_id <= MaxQuotes
          /\ CreateQuote(m, a, e)
          /\ UNCHANGED book_vars
    \/ \E q \in QuoteIds, a \in {NoAuthor} \cup PersonNames,
          e \in {NoEmbedding} \cup StoreVectors :
          UpdateQuote(q, a, e) /\ UNCHANGED book_vars
    \/ \E q \in QuoteIds : DeleteQuote(q) /\ NoteDelete
    \/ \E k \in 1..MaxPassK, o \in Orderings(WithEmbedding) :
          ReadCorpus(1, k, o) /\ NoteStart(1)
    \/ ClearEdges(1) /\ UNCHANGED book_vars
    \/ CreateEdge(1) /\ UNCHANGED book_vars
    \/ Return(1) /\ UNCHANGED book_vars
    \/ Respond(1) /\ UNCHANGED book_vars

SpecSolo == Init /\ [][NextSolo]_vars

\* A datastore holding n quotes with embeddings, nothing running
Populated ==
    /\ persons = PersonNames
    /\ \E n \in 0..MaxQuotes :
          /\ quotes \in [1..n -> [embedding : StoreVectors,
                                  authors : {SetToBag({a}) : a \in PersonNames}]]
          /\ next_id = n + 1
    /\ edges = EmptyBag
    /\ pc = [p \in Procs |-> "idle"]
    /\ rc_top_k = [p \in Procs |-> 0]
    /\ rc_all_embeddings = [p \in Procs |-> <<>>]
    /\ top_k_map = [p \in Procs |-> <<>>]
    /\ pos = [p \in Procs |-> 0]
    /\ ret = [p \in Procs |-> NoRun]
    /\ passes = 0
    /\ delete_seen = [p \in Procs |-> FALSE]
    /\ last_run = NoRun
    /\ cluster_id = <<>>
    /\ umap = <<>>

\* Passes run one after the other on a datastore nobody else writes to.
NextRerun ==
    \/ \E k \in 1..MaxPassK, o \in Orderings(WithEmbedding) :
          /\ passes < MaxPasses
          /\ ReadCorpus(1, k, o)
          /\ passes' = passes + 1
          /\ UNCHANGED <<delete_seen, last_run>>
    \/ ClearEdges(1) /\ UNCHANGED book_vars
    \/ CreateEdge(1) /\ UNCHANGED book_vars
    \/ Return(1) /\ UNCHANGED book_vars
    \/ /\ Respond(1)
       /\ last_run' = [top_k |-> rc_top_k[1], edges |-> edges]
       /\ UNCHANGED <<passes, delete_seen>>
    \/ Fail(1) /\ UNCHANGED book_vars
    \/ RespondError(1) /\ UNCHANGED book_vars

RerunInit == FnIdle /\ Populated /\ JobsIdle

SpecRerun == RerunInit /\ [][NextRerun]_vars

\* find_top_similar alone, the datastore left empty
FnInit == FnInputs /\ StoreInit /\ JobsIdle

FnNext == FnCall

SpecFn == FnInit /\ [][FnNext]_vars

\* The service operations called one at a time on an empty datastore, by
\* the endpoints and by the scripts, each read answered before the next call.
AuthorNames == {"p", "r"}

NextCrud ==
    \/ \E name \in AuthorNames :
          response = NoResponse /\ CreatePerson(name) /\ UNCHANGED book_vars
    \/ \E m \in {NoMatch} \cup QuoteIds, a \in AuthorNames, e \in StoreVectors :
          /\ response = NoResponse
          /\ m = NoMatch => next_id <= MaxCrud
          /\ m # NoMatch => BagCardinality(quotes[m].authors) < MaxLinks
          /\ CreateQuote(m, a, e)
          /\ UNCHANGED book_vars
    \/ \E q \in QuoteIds, a \in {NoAuthor} \cup AuthorNames,
          e \in {NoEmbedding} \cup StoreVectors :
          response = NoResponse /\ UpdateQuote(q, a, e) /\ UNCHANGED book_vars
    \/ \E q \in QuoteIds :
          response = NoResponse /\ DeleteQuote(q) /\ UNCHANGED book_vars
    \/ \E q \in 1..next_id, k \in 1..MaxPassK, o \in Orderings(WithEmbedding) :
          SimilarRequest(q, k, o) /\ UNCHANGED book_vars
    \/ StatsRequest /\ UNCHANGED book_vars
    \/ GraphRequest /\ UNCHANGED book_vars
    \/ Deliver /\ UNCHANGED book_vars

SpecCrud == Init /\ [][NextCrud]_vars

\* A datastore compute_clusters is run on: quotes with and without an
\* embedding, cluster indexes of an earlier run on quotes with an embedding,
\* coordinates of an earlier projection, the edges of an earlier pass.
OldLabels == {0, 7}

OldCoords == <<<<0, 1>>, <<1, 2>>>>

\* the edges a pass with top_k = 1 leaves when the rows come in id order:
\* the embeddings being equal, each quote points at the first other one
FirstOther(q) == CHOOSE t \in WithEmbedding \ {q} : \A u \in WithEmbedding \ {q} : t <= u

OldEdges ==
    SetToBag({<<q, FirstOther(q), <<1, 1>>>> :
                 q \in {x \in WithEmbedding : WithEmbedding \ {x} # {}}})

Clustered ==
    /\ persons = PersonNames
    /\ \E n \in 0..MaxClustered :
          /\ quotes \in [1..n -> [embedding : {<<3, 4>>, NoEmbedding},
                                  authors : {SetToBag({a}) : a \in PersonNames}]]
          /\ next_id = n + 1
    /\ \E S \in SUBSET WithEmbedding : cluster_id \in [S -> OldLabels]
    /\ umap \in {<<>>, [q \in QuoteIds |-> OldCoords]}
    /\ edges = OldEdges
    /\ pc = [p \in Procs |-> "idle"]
    /\ rc_top_k = [p \in Procs |-> 0]
    /\ rc_all_embeddings = [p \in Procs |-> <<>>]
    /\ top_k_map = [p \in Procs |-> <<>>]
    /\ pos = [p \in Procs |-> 0]
    /\ ret = [p \in Procs |-> NoRun]
    /\ passes = 0
    /\ delete_seen = [p \in Procs |-> FALSE]
    /\ last_run = NoRun

ClusterInit == FnIdle /\ Clustered /\ JobsIdle

\* compute_clusters run from the command line, one run after the other
NextCluster ==
    \/ \E n \in 1..MaxClusters, o \in Orderings(WithEmbedding) :
          \E cluster_labels \in [1..Len(o) -> 0..(AdjustedClusters(n, Len(o)) - 1)] :
              ClusterFit(n, o, cluster_labels) /\ UNCHANGED book_vars
    \/ ClusterUpdate /\ UNCHANGED book_vars
    \/ ClusterDone /\ UNCHANGED book_vars
    \/ ClusterExit /\ UNCHANGED book_vars

SpecCluster == ClusterInit /\ [][NextCluster]_vars

\* the cluster count of compute_clusters on corpora known by their size
CountInputs ==
    /\ cj_pc = "idle"
    /\ cj_n_clusters = 0
    /\ cj_embeddings_data = <<>>
    /\ cj_updates = <<>>
    /\ cj_pos = 0
    /\ cj_prior = <<>>
    /\ ad_pc = "ready"
    /\ ad_size \in 0..MaxSize
    /\ ad_requested \in 1..MaxRequested
    /\ ad_n_clusters = 0
    /\ ad_label = NoLabel
    /\ pj_pc = "idle"
    /\ pj_coords_2d = <<>>
    /\ pj_result = <<>>
    /\ MigrateIdle
    /\ response = NoResponse

CountInit == FnIdle /\ StoreInit /\ CountInputs

CountNext == \E label \in 0..(MaxRequested - 1) : ClusterCount(label) /\ UNCHANGED book_vars

SpecCount == CountInit /\ [][CountNext]_vars

\* compute_2d_projection on what fit_transform may return
RawCoords == {-1, 0, 2}

ProjectionInputs ==
    /\ cj_pc = "idle"
    /\ cj_n_clusters = 0
    /\ cj_embeddings_data = <<>>
    /\ cj_updates = <<>>
    /\ cj_pos = 0
    /\ cj_prior = <<>>
    /\ ad_pc = "idle"
    /\ ad_size = 0
    /\ ad_requested = 0
    /\ ad_n_clusters = 0
    /\ ad_label = NoLabel
    /\ pj_pc = "ready"
    /\ \E n \in 0..MaxPoints : pj_coords_2d \in [1..n -> RawCoords \X RawCoords]
    /\ pj_result = <<>>
    /\ MigrateIdle
    /\ response = NoResponse

ProjectionInit == FnIdle /\ StoreInit /\ ProjectionInputs

ProjectionNext == ProjectionCall /\ UNCHANGED book_vars

SpecProjection == ProjectionInit /\ [][ProjectionNext]_vars

\* A datastore the statistics are read from: quotes with embeddings, the
\* cluster indexes of a run on some of them, and either no edge or the edges
\* the endpoint's pass (top_k = 5) leaves on so few quotes: every ordered pair.
AllPairs ==
    SetToBag({<<q, t, ComputeCosineSimilarity(quotes[q].embedding, quotes[t].embedding)>> :
                 q \in QuoteIds, t \in QuoteIds} \ {<<q, q, <<1, 1>>>> : q \in QuoteIds})

Analysed ==
    /\ persons = PersonNames
    /\ \E n \in 0..MaxAnalysed :
          /\ quotes \in [1..n -> [embedding : StoreVectors,
                                  authors : {SetToBag({a}) : a \in PersonNames}]]
          /\ next_id = n + 1
    /\ \E S \in SUBSET QuoteIds : cluster_id \in [S -> {0, 1}]
    /\ umap = <<>>
    /\ edges \in {EmptyBag, AllPairs}
    /\ pc = [p \in Procs |-> "idle"]
    /\ rc_top_k = [p \in Procs |-> 0]
    /\ rc_all_embeddings = [p \in Procs |-> <<>>]
    /\ top_k_map = [p \in Procs |-> <<>>]
    /\ pos = [p \in Procs |-> 0]
    /\ ret = [p \in Procs |-> NoRun]
    /\ passes = 0
    /\ delete_seen = [p \in Procs |-> FALSE]
    /\ last_run = NoRun

StatsInit == FnIdle /\ Analysed /\ JobsIdle

\* the two read endpoints of the visualisation
NextStats ==
    \/ StatsRequest /\ UNCHANGED book_vars
    \/ GraphRequest /\ UNCHANGED book_vars
    \/ Deliver /\ UNCHANGED book_vars

SpecStats == StatsInit /\ [][NextStats]_vars

\* Passes run one after the other while the graph is read: a statement of
\* the pass or a read is served at a time, the reads falling between the
\* statements of create_similarity_edges_top_k.
NextObserve ==
    \/ response = NoResponse /\ NextRerun
    \/ GraphRequest /\ UNCHANGED book_vars
    \/ Deliver /\ UNCHANGED book_vars

SpecObserve == RerunInit /\ [][NextObserve]_vars

\* compute_clusters run while the graph and the statistics are read, a
\* statement of the script or a read being served at a time.
NextClusterRead ==
    \/ response = NoResponse /\ NextCluster
    \/ GraphRequest /\ UNCHANGED book_vars
    \/ StatsRequest /\ UNCHANGED book_vars
    \/ Deliver /\ UNCHANGED book_vars

SpecClusterRead == ClusterInit /\ [][NextClusterRead]_vars

\* A datastore migrate_to_openai.py is run on: quotes with the embeddings
\* of the former model, with or without coordinates and edges.
Migratable ==
    /\ persons = PersonNames
    /\ \E n \in 0..MaxMigrated :
          /\ quotes \in [1..n -> [embedding : StoreVectors,
                                  authors : {SetToBag({a}) : a \in PersonNames}]]
          /\ next_id = n + 1
    /\ cluster_id = <<>>
    /\ umap \in {<<>>, [q \in QuoteIds |-> OldCoords]}
    /\ edges \in {EmptyBag, AllPairs}
    /\ pc = [p \in Procs |-> "idle"]
    /\ rc_top_k = [p \in Procs |-> 0]
    /\ rc_all_embeddings = [p \in Procs |-> <<>>]
    /\ top_k_map = [p \in Procs |-> <<>>]
    /\ pos = [p \in Procs |-> 0]
    /\ ret = [p \in Procs |-> NoRun]
    /\ passes = 0
    /\ delete_seen = [p \in Procs |-> FALSE]
    /\ last_run = NoRun

MigrateInit == FnIdle /\ Migratable /\ JobsIdle

\* one run of migrate_to_openai.py from the command line
NextMigrate ==
    \/ \E b \in 1..MaxBatch : MigrateStart(b, ListQuotes) /\ UNCHANGED book_vars
    \/ \E n \in 1..MaxBatch : \E chunk \in [1..n -> ProviderVectors] :
          BatchReturned(chunk) /\ UNCHANGED book_vars
    \/ BatchFailed /\ UNCHANGED book_vars
    \/ BatchesDone /\ UNCHANGED book_vars
    \/ MigrateUpdate /\ UNCHANGED book_vars
    \/ \E n \in 1..MaxMigrated : \E coords_2d \in [1..n -> MigrateCoords \X MigrateCoords] :
          MigrateProject(coords_2d) /\ UNCHANGED book_vars
    \/ MigrateProjectFailed /\ UNCHANGED book_vars
    \/ MigrateStoreUmap /\ UNCHANGED book_vars
    \/ MigrateCompute /\ UNCHANGED book_vars
    \/ MigrateClear /\ UNCHANGED book_vars
    \/ MigrateCreate /\ UNCHANGED book_vars
    \/ MigrateDone /\ UNCHANGED book_vars
    \/ MigrateExit /\ UNCHANGED book_vars

SpecMigrate == MigrateInit /\ [][NextMigrate]_vars

\* Full rebuilds of a datastore where some quotes carry no embedding.
SpecRebuild == ClusterInit /\ [][NextRerun]_vars

\* The quote operations, the passes of request 1 and the reads, one statement
\* or call at a time.
NextGraph ==
    \/ NextCrud
    \/ \E k \in 1..MaxPassK, o \in Orderings(WithEmbedding) :
          response = NoResponse /\ ReadCorpus(1, k, o) /\ UNCHANGED book_vars
    \/ response = NoResponse /\ ClearEdges(1) /\ UNCHANGED book_vars
    \/ response = NoResponse /\ CreateEdge(1) /\ UNCHANGED book_vars
    \/ response = NoResponse /\ Return(1) /\ UNCHANGED book_vars
    \/ response = NoResponse /\ Respond(1) /\ UNCHANGED book_vars

SpecGraph == Init /\ [][NextGraph]_vars

-----------------------------------------------------------------------------
(* Properties of find_top_similar *)

ResultIds == {fn_result[i][1] : i \in 1..Len(fn_result)}

\* the position of an id in the corpus handed in
CorpusPos(id) == CHOOSE i \in 1..Len(fn_corpus) : fn_corpus[i][1] = id

\* the corpus entries find_top_similar is asked to rank
Candidates ==
    {i \in 1..Len(fn_corpus) : fn_exclude = NoneId \/ fn_corpus[i][1] # fn_exclude}

IsZeroVector(v) == \A i \in 1..Len(v) : v[i] = 0

\* C2: the returned list has at most top_k entries, holds no id twice and
\* never holds the excluded id.
C2_AtMostKNoDupNoExcluded ==
    fn_pc = "returned" =>
        /\ Len(fn_result) <= fn_top_k
        /\ \A i, j \in 1..Len(fn_result) : fn_result[i][1] = fn_result[j][1] => i = j
        /\ fn_exclude # NoneId => fn_exclude \notin ResultIds

\* C3 as stated: every score is strictly greater than the one after it.
C3_StrictlyDescending ==
    fn_pc = "returned" =>
        \A i \in 1..(Len(fn_result) - 1) : ScoreGT(fn_result[i][2], fn_result[i + 1][2])

\* C3 amended: the scores never increase along the returned list (equal
\* neighbours are allowed).
C3_NonIncreasing ==
    fn_pc = "returned" =>
        \A i \in 1..(Len(fn_result) - 1) : ScoreGE(fn_result[i][2], fn_result[i + 1][2])

C3_Witness ==
    /\ fn_pc = "returned"
    /\ Len(fn_result) = 3
    /\ fn_result[1][2] = fn_result[2][2]
    /\ ScoreGT(fn_result[2][2], fn_result[3][2])

\* C4: entries of equal score come out in corpus order, and a candidate left
\* out by the cut at top_k never precedes, in the corpus, a kept entry of the
\* same score.
C4_TiesKeepInputOrder ==
    fn_pc = "returned" =>
        /\ \A i, j \in 1..Len(fn_result) :
              (i < j /\ fn_result[i][2] = fn_result[j][2])
                  => CorpusPos(fn_result[i][1]) < CorpusPos(fn_result[j][1])
        /\ \A i \in 1..Len(fn_result) : \A c \in Candidates :
              (/\ fn_corpus[c][1] \notin ResultIds
               /\ ComputeCosineSimilarity(fn_target, fn_corpus[c][2]) = fn_result[i][2])
                  => CorpusPos(fn_result[i][1]) < c

C4_Witness ==
    /\ fn_pc = "returned"
    /\ Len(fn_result) = 2
    /\ fn_result[1][2] = fn_result[2][2]
    /\ \E c \in Candidates :
          /\ fn_corpus[c][1] \notin ResultIds
          /\ ComputeCosineSimilarity(fn_target, fn_corpus[c][2]) = fn_result[2][2]

\* C5: a zero-norm input gives the score 0.0, and find_top_similar over a
\* corpus with zero vectors returns its full list, those entries scored 0.0.
C5_ZeroNormScoresZero ==
    fn_pc = "returned" =>
        /\ \A c \in 1..Len(fn_corpus) :
              (IsZeroVector(fn_target) \/ IsZeroVector(fn_corpus[c][2]))
                  => ComputeCosineSimilarity(fn_target, fn_corpus[c][2]) = ZeroScore
        /\ \A i \in 1..Len(fn_result) :
              (IsZeroVector(fn_target) \/ IsZeroVector(fn_corpus[CorpusPos(fn_result[i][1])][2]))
                  => fn_result[i][2] = ZeroScore
        /\ Len(fn_result) >= Min(fn_top_k, Cardinality(Candidates))

C5_Witness ==
    /\ fn_pc = "returned"
    /\ ~IsZeroVector(fn_target)
    /\ Len(fn_result) = 3
    /\ \E i \in 1..3 : IsZeroVector(fn_corpus[CorpusPos(fn_result[i][1])][2])
    /\ \E i \in 1..3 : fn_result[i][2] # ZeroScore

-----------------------------------------------------------------------------
(* Properties of the recompute pass *)

\* the edges request p computed, in the order it creates them
Computed(p) == EdgeList(top_k_map[p])

\* the number of SIMILAR_TO relationships leaving q
OutDegree(q) ==
    BagCardinality([e \in {x \in DOMAIN edges : x[1] = q} |-> edges[e]])

\* the embedding request p read for quote q
ReadEmbedding(p, q) ==
    LET i == CHOOSE j \in 1..Len(rc_all_embeddings[p]) : rc_all_embeddings[p][j][1] = q
    IN  rc_all_embeddings[p][i][2]

ReadIds(p) == {rc_all_embeddings[p][i][1] : i \in 1..Len(rc_all_embeddings[p])}

\* C1: when a pass that no deletion (and no other pass) overlapped completes,
\* the stored SIMILAR_TO relationships are exactly the computed triples, each
\* once, and no pair was computed twice.
C1_EdgesAreTheComputedOnes ==
    (pc[1] = "done" /\ ~delete_seen[1]) =>
        /\ DOMAIN edges = {Computed(1)[i] : i \in 1..Len(Computed(1))}
        /\ \A e \in DOMAIN edges : edges[e] = 1
        /\ \A i, j \in 1..Len(Computed(1)) :
              (Computed(1)[i][1] = Computed(1)[j][1] /\ Computed(1)[i][2] = Computed(1)[j][2])
                  => i = j

\* a pass completed beside a quote created after its read, with k below the
\* number of candidates
C1_Witness ==
    /\ pc[1] = "done"
    /\ ~delete_seen[1]
    /\ Len(rc_all_embeddings[1]) = 3
    /\ rc_top_k[1] = 1
    /\ BagCardinality(edges) = 3
    /\ \E q \in QuoteIds : quotes[q].embedding # ReadEmbedding(1, q)

\* C12: a pass that fails or is cancelled before create_similarity_edges_top_k
\* issues its delete leaves the SIMILAR_TO relationships as they were when
\* the pass started (as the latest completed pass left them).
C12_FailureBeforeDeleteKeepsEdges ==
    pc[1] \in {"computed", "failed"} => edges = last_run.edges

\* a second pass has failed on the edges the first one stored
C12_Witness ==
    /\ pc[1] = "failed"
    /\ passes = 2
    /\ BagCardinality(edges) >= 2

\* C6: a second pass with the same top_k over unchanged embeddings leaves the
\* edge set the first pass left, whatever the two corpus orders were.
C6_RerunLeavesSameEdges ==
    (pc[1] = "done" /\ passes = 2 /\ last_run.top_k = rc_top_k[1]) =>
        edges = last_run.edges

\* C7: right after a pass with parameter k, get_graph_data holds at most k
\* similar_to edges per source record.
C7_GraphOutDegreeAtMostK ==
    pc[1] = "done" =>
        \A q \in WithEmbedding :
            BagCardinality([d \in {x \in DOMAIN GraphSimilarEdges : x.source = q}
                               |-> GraphSimilarEdges[d]]) <= rc_top_k[1]

C7_Witness ==
    /\ pc[1] = "done"
    /\ rc_top_k[1] = 1
    /\ Cardinality(WithEmbedding) = 3
    /\ \A q \in WithEmbedding : OutDegree(q) = 1

\* C8: no SIMILAR_TO relationship joins a record to itself, and both ends of
\* every one are existing records with a non-empty embedding.
C8_EdgesJoinLiveRecords ==
    \A e \in DOMAIN edges :
        /\ e[1] # e[2]
        /\ e[1] \in WithEmbedding
        /\ e[2] \in WithEmbedding

\* edges stored while two passes are creating theirs, one of them from an
\* embedding that has been rewritten since it was read
C8_Witness ==
    /\ pc[1] = "inserting"
    /\ pc[2] = "inserting"
    /\ pos[1] > 1
    /\ \E q \in QuoteIds : quotes[q].embedding # ReadEmbedding(1, q)
    /\ edges # EmptyBag

\* C9: per source record there are at most K outgoing SIMILAR_TO
\* relationships and no two of them reach the same target.
C9_AtMostKNoDuplicateTargets ==
    /\ \A q \in QuoteIds : OutDegree(q) <= MaxPassK
    /\ \A e \in DOMAIN edges : edges[e] = 1
    /\ \A e, f \in DOMAIN edges : (e[1] = f[1] /\ e[2] = f[2]) => e = f

\* C10: after a pass, every stored edge joins two records of the corpus read
\* at the start, carries the similarity of the two embeddings read then, and
\* its target ranks among the top_k of that corpus.
C10_EdgesComeFromTheSnapshot ==
    pc[1] = "done" =>
        \A e \in DOMAIN edges :
            /\ e[1] \in ReadIds(1)
            /\ e[2] \in ReadIds(1) \ {e[1]}
            /\ e[3] = ComputeCosineSimilarity(ReadEmbedding(1, e[1]), ReadEmbedding(1, e[2]))
            /\ Cardinality({u \in ReadIds(1) \ {e[1]} :
                  ScoreGT(ComputeCosineSimilarity(ReadEmbedding(1, e[1]), ReadEmbedding(1, u)),
                          e[3])}) < rc_top_k[1]

\* an edge whose score is not the similarity of the embeddings stored now
C10_Witness ==
    /\ pc[1] = "done"
    /\ \E e \in DOMAIN edges :
          e[3] # ComputeCosineSimilarity(quotes[e[1]].embedding, quotes[e[2]].embedding)

-----------------------------------------------------------------------------
(* Properties of the read operations and of the quote operations *)

\* C11: find_similar_quotes ends in a not-found error, not in a returned
\* list, when the requested record is absent or has no stored embedding.
C11_AbsentTargetRaisesNotFound ==
    (/\ response.op = "similar"
     /\ \/ response.quote_id \notin QuoteIds
        \/ quotes[response.quote_id].embedding = NoEmbedding)
        => response.similar_quotes.kind = "NotFoundError"

\* C18: in one get_graph_data result every record of the datastore is on
\* exactly one quote node, and every author some record references is on
\* exactly one person node (and no other person is).
C18_OneNodePerRecordAndAuthor ==
    response.op = "graph" =>
        /\ \A q \in QuoteIds :
              BagCardinality([n \in {x \in DOMAIN response.quote_nodes : x.id = q}
                                 |-> response.quote_nodes[n]]) = 1
        /\ \A n \in DOMAIN response.quote_nodes : n.id \in QuoteIds
        /\ \A n \in DOMAIN response.person_nodes : response.person_nodes[n] = 1
        /\ {n.id : n \in DOMAIN response.person_nodes}
              = UNION {AuthorsOf(q) : q \in QuoteIds}

\* C19: every existing record has exactly one ATTRIBUTED_TO relationship.
C19_ExactlyOneAuthor ==
    \A q \in QuoteIds : BagCardinality(quotes[q].authors) = 1

\* C20: get_analytics_stats on a datastore without records, authors and
\* edges returns 0 for the two totals, the cluster count and the two averages.
C20_EmptyDatastoreStatsAreZero ==
    (/\ response.op = "stats"
     /\ QuoteIds = {}
     /\ persons = {}
     /\ edges = EmptyBag)
        => /\ response.total_quotes = 0
           /\ response.total_people = 0
           /\ response.avg_quotes_per_person = ZeroScore
           /\ response.total_clusters = 0
           /\ response.avg_cluster_size = ZeroScore

\* the statistics returned while the datastore is still empty
C20_Witness ==
    /\ response.op = "stats"
    /\ QuoteIds = {}
    /\ persons = {}
    /\ edges = EmptyBag
    /\ next_id = 1

-----------------------------------------------------------------------------
(* Properties of compute_clusters *)

\* C13: asked for more clusters than there are records with vectors,
\* compute_clusters hands max(2, size \div 10) to k-means, and every index
\* the fit yields (the ones it persists) lies in 0 .. that count - 1.
C13_AdjustedCountBoundsLabels ==
    (ad_pc \in {"fitted", "failed"} /\ ad_requested > ad_size) =>
        /\ ad_n_clusters = Max(2, ad_size \div 10)
        /\ ad_pc = "fitted" =>
              (ad_label >= 0 /\ ad_label < Max(2, ad_size \div 10))

\* a corpus of 30 rows, more clusters asked for: three are used
C13_Witness ==
    /\ ad_pc = "fitted"
    /\ ad_size = 30
    /\ ad_requested > 30
    /\ ad_n_clusters = 3
    /\ ad_label = 2

\* C14: for every corpus size below the requested n_clusters the run
\* completes: the count handed to k-means does not exceed the corpus size.
C14_SmallCorpusNeverFails ==
    (ad_pc # "ready" /\ ad_size < ad_requested) =>
        (ad_pc = "fitted" /\ ad_n_clusters <= ad_size)

\* the index this run computed for quote q
RunLabel(q) ==
    LET i == CHOOSE j \in DOMAIN cj_updates : cj_updates[j][1] = q
    IN  cj_updates[i][2]

RunIds == {cj_updates[i][1] : i \in DOMAIN cj_updates}

\* C15: when compute_clusters has completed, every record with a vector
\* carries the index this run assigned to it, and no record carries an index
\* this run did not assign.
C15_AssignmentIsThisRuns ==
    cj_pc = "done" =>
        /\ \A q \in QuoteIds : quotes[q].embedding # NoEmbedding =>
              (q \in RunIds /\ q \in DOMAIN cluster_id /\ cluster_id[q] = RunLabel(q))
        /\ \A q \in DOMAIN cluster_id : q \in RunIds /\ cluster_id[q] < cj_n_clusters

\* a completed run over three records with vectors, both clusters used
C15_Witness ==
    /\ cj_pc = "done"
    /\ cj_n_clusters = 2
    /\ Len(cj_updates) = 3
    /\ {cluster_id[q] : q \in DOMAIN cluster_id} = {0, 1}

\* C16: a step of compute_clusters leaves every embedding, author link,
\* projection coordinate and SIMILAR_TO edge as it was, and leaves the
\* cluster_id of every record without a vector as it was.
C16_OnlyClusterIdOfVectorRecords ==
    [][/\ quotes' = quotes
       /\ persons' = persons
       /\ edges' = edges
       /\ umap' = umap
       /\ \A q \in QuoteIds : quotes[q].embedding = NoEmbedding =>
             /\ (q \in DOMAIN cluster_id') = (q \in DOMAIN cluster_id)
             /\ q \in DOMAIN cluster_id => cluster_id'[q] = cluster_id[q]]_vars

\* a completed run beside a record without a vector, with coordinates and
\* edges stored
C16_Witness ==
    /\ cj_pc = "done"
    /\ Len(cj_updates) = 2
    /\ \E q \in QuoteIds : quotes[q].embedding = NoEmbedding
    /\ umap # <<>>
    /\ edges # EmptyBag
    /\ DOMAIN cluster_id # {}

-----------------------------------------------------------------------------
(* Properties of compute_2d_projection *)

InUnit(r) == ScoreGE(r, ZeroScore) /\ ScoreGE(<<1, 1>>, r)

\* C17: for two or more records the result has one pair per record, every
\* coordinate in [0, 1], on each axis a point at 0 or at 1, and an axis whose
\* raw values are all equal maps every point to 0; for fewer than two
\* records the result is the empty mapping.
C17_ProjectionInUnitSquare ==
    pj_pc = "returned" =>
        IF Len(pj_coords_2d) < 2 THEN pj_result = <<>>
        ELSE /\ DOMAIN pj_result = DOMAIN pj_coords_2d
             /\ \A i \in DOMAIN pj_result :
                   InUnit(pj_result[i][1]) /\ InUnit(pj_result[i][2])
             /\ \A c \in 1..2 :
                   /\ \E i \in DOMAIN pj_result : pj_result[i][c] \in {ZeroScore, <<1, 1>>}
                   /\ (\A i, j \in DOMAIN pj_coords_2d :
                            pj_coords_2d[i][c] = pj_coords_2d[j][c])
                         => \A i \in DOMAIN pj_result : pj_result[i][c] = ZeroScore

\* three points, the x values all equal, the y values spread
C17_Witness ==
    /\ pj_pc = "returned"
    /\ Len(pj_coords_2d) = 3
    /\ \A i \in 1..3 : pj_coords_2d[i][1] = 2
    /\ {pj_result[i][2] : i \in 1..3} = {ZeroScore, <<1, 3>>, <<1, 1>>}

-----------------------------------------------------------------------------
(* Properties of the statistics and of find_similar_quotes *)

\* C21: get_analytics_stats reports the number of records as total_quotes,
\* the number of authors in the datastore as total_people (also when there is
\* no record), and their quotient, or 0 without authors, as the average.
C21_TotalsAreTheTrueCounts ==
    response.op = "stats" =>
        /\ response.total_quotes = Cardinality(QuoteIds)
        /\ response.total_people = Cardinality(persons)
        /\ response.avg_quotes_per_person =
              (IF persons = {} THEN ZeroScore
               ELSE Rat(Cardinality(QuoteIds), Cardinality(persons)))

\* C30: for an existing record with a stored embedding find_similar_quotes
\* returns min(top_k, number of other records with a vector) quotes, never
\* the queried one, in descending score order.
C30_SimilarQuotesAreTheTopK ==
    (/\ response.op = "similar"
     /\ response.quote_id \in QuoteIds
     /\ response.quote_id \in WithEmbedding) =>
        LET found == response.similar_quotes.value
        IN  /\ Len(found) = Min(response.top_k,
                                Cardinality(WithEmbedding \ {response.quote_id}))
            /\ \A i \in DOMAIN found : found[i][1] # response.quote_id
            /\ \A i \in 1..(Len(found) - 1) : ScoreGE(found[i][2], found[i + 1][2])

\* 25 times the score r (the scores of vectors of length 5 are n/25)
Scaled(r) == (25 * r[1]) \div r[2]

RECURSIVE SumScaled(_)
SumScaled(E) ==
    IF E = {} THEN 0
    ELSE LET e == CHOOSE x \in E : TRUE
         IN  Scaled(e[3]) * edges[e] + SumScaled(E \ {e})

\* the stored edges with both ends in cluster c, and how many they are
InCluster(c) == {e \in DOMAIN edges : ClusterOf(e[1]) = c /\ ClusterOf(e[2]) = c}

RECURSIVE CountEdges(_)
CountEdges(E) ==
    IF E = {} THEN 0
    ELSE LET e == CHOOSE x \in E : TRUE IN edges[e] + CountEdges(E \ {e})

\* C22: the statistics hold one entry per cluster index present on a record,
\* with the number of its records and the mean score of the edges inside it
\* (0.0 without such an edge); total_clusters counts the entries and
\* avg_cluster_size is the sum of the counts over it (0 without clusters).
C22_ClusterStatistics ==
    response.op = "stats" =>
        LET d == response.cluster_distribution
        IN  /\ DOMAIN d = {cluster_id[q] : q \in DOMAIN cluster_id}
            /\ \A c \in DOMAIN d :
                  /\ d[c].quote_count =
                        Cardinality({q \in DOMAIN cluster_id : cluster_id[q] = c})
                  /\ d[c].avg_similarity =
                        (IF InCluster(c) = {} THEN ZeroScore
                         ELSE Rat(SumScaled(InCluster(c)), 25 * CountEdges(InCluster(c))))
            /\ response.total_clusters = Cardinality(DOMAIN d)
            /\ response.avg_cluster_size =
                  (IF DOMAIN d = {} THEN ZeroScore
                   ELSE Rat(Cardinality(DOMAIN cluster_id), Cardinality(DOMAIN d)))

\* two clusters over three records, one with edges of different scores inside
\* it, one with a single record and no edge
C22_Witness ==
    /\ response.op = "stats"
    /\ response.total_clusters = 2
    /\ response.avg_cluster_size = <<3, 2>>
    /\ \E c \in DOMAIN response.cluster_distribution :
          response.cluster_distribution[c].avg_similarity = <<3, 5>>
    /\ \E c \in DOMAIN response.cluster_distribution :
          response.cluster_distribution[c].avg_similarity = ZeroScore
    /\ edges # EmptyBag

-----------------------------------------------------------------------------
(* Properties of a pass seen from outside *)

\* the set of the edges request p computed
ComputedSet(p) == {Computed(p)[i] : i \in 1..Len(Computed(p))}

\* C24: a full rebuild skips a record without embedding (no edge leaves or
\* reaches it, the pass completes) and its returned counts tell the number of
\* records skipped apart from the number processed.
C24_SkippedAreCounted ==
    (pc[1] = "done" /\ QuoteIds \ WithEmbedding # {}) =>
        /\ \A e \in DOMAIN edges : e[1] \in WithEmbedding /\ e[2] \in WithEmbedding
        /\ ret[1].total_quotes = Cardinality(WithEmbedding)
        /\ \E f \in DOMAIN ret[1] \ {"total_quotes", "similarity_edges_created", "top_k"} :
              ret[1][f] = Cardinality(QuoteIds \ WithEmbedding)

\* C25: a get_graph_data answered between the clearing statement of a pass
\* and its first CREATE returns no similar_to edge, although edges were
\* stored before the pass and are stored after it.
C25_ReaderSeesNoEdges ==
    (response.op = "graph" /\ pc[1] = "inserting" /\ pos[1] = 1) =>
        response.similar_to = EmptyBag

C25_Witness ==
    /\ response.op = "graph"
    /\ pc[1] = "inserting"
    /\ pos[1] = 1
    /\ last_run.edges # EmptyBag
    /\ Computed(1) # <<>>
    /\ response.similar_to = EmptyBag

\* C27: with one pass and no other writer, the stored edges are at every
\* moment either the complete set the pass found or a part of the set it
\* computed, each edge once; old-only and new-only edges never coexist.
C27_OldSetOrPartOfNew ==
    \/ edges = last_run.edges
    \/ \A e \in DOMAIN edges : e \in ComputedSet(1) /\ edges[e] = 1

\* the second pass has created some of its edges; the first pass had left
\* an edge the second one did not compute
C27_Witness ==
    /\ pc[1] = "inserting"
    /\ pos[1] > 1
    /\ pos[1] <= Len(Computed(1))
    /\ edges # EmptyBag
    /\ \E e \in DOMAIN last_run.edges : e \notin ComputedSet(1)

\* C28: the similarity_edges_created a pass returns is the number of
\* SIMILAR_TO relationships stored when it completes, and total_quotes the
\* number of sources a list was computed for.
C28_ReturnedCountsAreTheStored ==
    [][(pc[1] = "inserting" /\ pc'[1] = "done") =>
          /\ ret'[1].similarity_edges_created = BagCardinality(edges')
          /\ ret'[1].total_quotes = Len(top_k_map'[1])]_vars

\* C29: in a get_graph_data result both ends of every attributed_to and of
\* every similar_to edge are ids of nodes of that result.
C29_EdgesJoinReturnedNodes ==
    response.op = "graph" =>
        LET quote_ids == {n.id : n \in DOMAIN response.quote_nodes}
            names == {n.id : n \in DOMAIN response.person_nodes}
        IN  /\ \A e \in DOMAIN response.attributed_to :
                  e.source \in quote_ids /\ e.target \in names
            /\ \A e \in DOMAIN response.similar_to :
                  e.source \in quote_ids /\ e.target \in quote_ids

-----------------------------------------------------------------------------
(* Properties of compute_clusters seen from outside *)

\* the cluster index of q before the run, and the one the run gives it
PriorLabel(q) == IF q \in DOMAIN cj_prior THEN cj_prior[q] ELSE NoLabel

NewLabel(q) == IF q \in RunIds THEN RunLabel(q) ELSE PriorLabel(q)

\* C26: a get_graph_data answered while update_cluster_ids is writing shows
\* on its quote nodes either the cluster indexes of before the run or those
\* of the run, never some of each.
C26_IndexesVisibleTogether ==
    (response.op = "graph" /\ cj_pc = "updating") =>
        \/ \A n \in DOMAIN response.quote_nodes : n.cluster_id = PriorLabel(n.id)
        \/ \A n \in DOMAIN response.quote_nodes : n.cluster_id = NewLabel(n.id)

-----------------------------------------------------------------------------
(* Properties of migrate_to_openai.py *)

\* C23: when the provider fails for a batch, the migration has reported the
\* failure and written nothing: the embeddings of the quotes, the
\* coordinates and the SIMILAR_TO relationships are those of before the run,
\* also when earlier batches had been answered.
C23_ProviderFailureCommitsNothing ==
    mg_pc = "provider_failed" =>
        /\ quotes = mg_before.quotes
        /\ umap = mg_before.umap
        /\ edges = mg_before.edges

\* the second batch failed after the first had returned an embedding that
\* differs from the stored one; coordinates and edges were stored
C23_Witness ==
    /\ mg_pc = "provider_failed"
    /\ Len(mg_embeddings) >= 1
    /\ Len(mg_embeddings) < Len(mg_quote_ids)
    /\ \E i \in DOMAIN mg_embeddings :
          mg_embeddings[i] # quotes[mg_quote_ids[i]].embedding
    /\ umap # <<>>
    /\ edges # EmptyBag

====
